---- MODULE Spec2Model ----
(***************************************************************************)
(* Model of the mail package: the Message composer (setters, SetAttachment *)
(* and Send), the attachment encoder (base64 + base64LineBreaker) and the  *)
(* identifier generator (generateUUID / generateMessageID).                *)
(*                                                                         *)
(* Byte slices are sequences of numbers 0..255; text the code builds with  *)
(* string concatenation is a sequence of string pieces.                    *)
(***************************************************************************)
EXTENDS Integers, Sequences, FiniteSets, TLC

VARIABLES
    msg,        \* the Message struct (part_002 lines 25-36)
    last,       \* what the last call on the Message did and returned
    raw,        \* attachment.Data handed to the encoder
    encoded,    \* the input of base64LineBreaker
    broken,     \* the output of base64LineBreaker
    rnd,        \* the 16 bytes rand.Read produced
    uuid,       \* the 16 bytes after the version and variant bits are forced
    uuidStr,    \* the string generateUUID returns
    messageId,  \* the string generateMessageID returns
    pc          \* position of the encoder / generator run

vars == <<msg, last, raw, encoded, broken, rnd, uuid, uuidStr, messageId, pc>>

(***************************************************************************)
(* Bounds of the model                                                     *)
(***************************************************************************)
MaxDataLen == 118      \* longest attachment handed to the encoder
MaxLineInput == 156    \* longest direct input of base64LineBreaker
MaxSeed == 3           \* number of byte patterns the inputs are drawn from

(***************************************************************************)
(* Bytes and bit operations                                                *)
(***************************************************************************)
Byte == 0..255

RECURSIVE BitAnd(_, _)
BitAnd(a, b) ==
    IF a = 0 \/ b = 0 THEN 0
    ELSE (a % 2) * (b % 2) + 2 * BitAnd(a \div 2, b \div 2)

RECURSIVE BitOr(_, _)
BitOr(a, b) ==
    IF a = 0 THEN b
    ELSE IF b = 0 THEN a
    ELSE (IF a % 2 = 1 \/ b % 2 = 1 THEN 1 ELSE 0) + 2 * BitOr(a \div 2, b \div 2)

CR == 13
LF == 10
CRLF == <<CR, LF>>

\* the byte pattern number seed, of length n
PatternBytes(n, seed) == [i \in 1..n |-> ((50 * seed + 1) * i + 85 * seed) % 256]

(***************************************************************************)
(* encoding/base64 StdEncoding, as Send uses it (part_002 lines 187-188)   *)
(***************************************************************************)
\* "ABCDEFGHIJKLMNOPQRSTUVWXYZabcdefghijklmnopqrstuvwxyz0123456789+/"
encodeStd ==
    [i \in 0..63 |->
        IF i < 26 THEN 65 + i
        ELSE IF i < 52 THEN 97 + (i - 26)
        ELSE IF i < 62 THEN 48 + (i - 52)
        ELSE IF i = 62 THEN 43 ELSE 47]

StdPadding == 61   \* '='

EncodedLen(n) == ((n + 2) \div 3) * 4

RECURSIVE StdEncode(_)
StdEncode(src) ==
    IF Len(src) = 0 THEN <<>>
    ELSE IF Len(src) >= 3 THEN
        LET val == src[1] * 65536 + src[2] * 256 + src[3]
        IN  << encodeStd[(val \div 262144) % 64],
               encodeStd[(val \div 4096) % 64],
               encodeStd[(val \div 64) % 64],
               encodeStd[val % 64] >>
            \o StdEncode(SubSeq(src, 4, Len(src)))
    ELSE IF Len(src) = 2 THEN
        LET val == src[1] * 65536 + src[2] * 256
        IN  << encodeStd[(val \div 262144) % 64],
               encodeStd[(val \div 4096) % 64],
               encodeStd[(val \div 64) % 64],
               StdPadding >>
    ELSE
        LET val == src[1] * 65536
        IN  << encodeStd[(val \div 262144) % 64],
               encodeStd[(val \div 4096) % 64],
               StdPadding,
               StdPadding >>

(***************************************************************************)
(* base64LineBreaker (part_001 lines 5-14)                                 *)
(***************************************************************************)
LineLen == 76

\* variants of the loop: breaking while len(s) >= 76, breaking only from 78
\* characters on, and dropping the character after each chunk
RECURSIVE base64LineBreakerGE(_)
base64LineBreakerGE(s) ==
    IF Len(s) >= LineLen
    THEN SubSeq(s, 1, LineLen) \o CRLF
         \o base64LineBreakerGE(SubSeq(s, LineLen + 1, Len(s)))
    ELSE s

RECURSIVE base64LineBreakerLate(_)
base64LineBreakerLate(s) ==
    IF Len(s) > LineLen + 1
    THEN SubSeq(s, 1, LineLen) \o CRLF
         \o base64LineBreakerLate(SubSeq(s, LineLen + 1, Len(s)))
    ELSE s

RECURSIVE base64LineBreakerSkip(_)
base64LineBreakerSkip(s) ==
    IF Len(s) > LineLen
    THEN SubSeq(s, 1, LineLen) \o CRLF
         \o base64LineBreakerSkip(SubSeq(s, LineLen + 2, Len(s)))
    ELSE s

RECURSIVE base64LineBreaker(_)
base64LineBreaker(s) ==
    IF Len(s) > LineLen
    THEN SubSeq(s, 1, LineLen) \o CRLF
         \o base64LineBreaker(SubSeq(s, LineLen + 1, Len(s)))
    ELSE s

(***************************************************************************)
(* generateUUID (mail.go lines 73-89)                                      *)
(***************************************************************************)
HexDigit == <<"0", "1", "2", "3", "4", "5", "6", "7",
              "8", "9", "a", "b", "c", "d", "e", "f">>

\* fmt's %x of a byte slice: two lower-case hex digits per byte
RECURSIVE FormatHex(_)
FormatHex(bs) ==
    IF Len(bs) = 0 THEN <<>>
    ELSE <<HexDigit[(bs[1] \div 16) + 1], HexDigit[(bs[1] % 16) + 1]>>
         \o FormatHex(Tail(bs))

\* uuid[6] = (uuid[6] & 0x0f) | 0x40
SetVersion(b) == BitOr(BitAnd(b, 15), 64)

\* uuid[8] = (uuid[8] & 0xbf) | 0x80
\* (the variant without the mask sets bit 7 and leaves bit 6 as drawn)
SetVariantKeep(b) == BitOr(b, 128)
SetVariant(b) == BitOr(BitAnd(b, 191), 128)

\* the slice indexes of the code are 0-based, the sequences here 1-based
ForceBits(u) == [u EXCEPT ![7] = SetVersion(u[7]), ![9] = SetVariant(u[9])]

\* fmt.Sprintf("%x-%x-%x-%x-%x", uuid[0:4], uuid[4:6], uuid[6:8], uuid[8:10], uuid[10:])
FormatUUID(u) ==
    FormatHex(SubSeq(u, 1, 4)) \o <<"-">> \o FormatHex(SubSeq(u, 5, 6)) \o <<"-">>
    \o FormatHex(SubSeq(u, 7, 8)) \o <<"-">> \o FormatHex(SubSeq(u, 9, 10)) \o <<"-">>
    \o FormatHex(SubSeq(u, 11, 16))

\* the outcome of generateUUID on the drawn bytes r; readOk: rand.Read succeeded
generateUUIDResult(r, readOk) ==
    IF ~readOk
    THEN [uuid |-> r, result |-> <<>>, err |-> "rand.Read"]
    ELSE [uuid |-> ForceBits(r), result |-> FormatUUID(ForceBits(r)), err |-> "nil"]

\* fmt.Sprintf("<%s@%s>", uuid, hostname), mail.go lines 55-69; a generateUUID
\* error is printed and the empty uuid is used
generateMessageIDResult(r, readOk, hostname) ==
    <<"<">> \o generateUUIDResult(r, readOk).result \o <<"@", hostname, ">">>

(***************************************************************************)
(* Idle values of the variables a specification does not use               *)
(***************************************************************************)
NoMsg == [from |-> "", to |-> <<>>, subject |-> ""]
NoLast == [op |-> "none"]

EncoderIdle == raw = <<>> /\ encoded = <<>> /\ broken = <<>>
GeneratorIdle == rnd = <<>> /\ uuid = <<>> /\ uuidStr = <<>> /\ messageId = <<>>

(***************************************************************************)
(* The attachment encoder: Send's loop body, part_002 lines 187-190        *)
(***************************************************************************)
\* a text of n characters of the base64 alphabet
PatternText(n, seed) == [i \in 1..n |-> encodeStd[((seed + 1) * i) % 64]]

InitEncoder ==
    /\ msg = NoMsg /\ last = NoLast /\ GeneratorIdle
    /\ broken = <<>>
    /\ \E seed \in 0..MaxSeed :
          \/ \E n \in 0..MaxDataLen :
                raw = PatternBytes(n, seed) /\ encoded = <<>> /\ pc = "data"
          \/ \E n \in 0..MaxLineInput :
                raw = <<>> /\ encoded = PatternText(n, seed) /\ pc = "text"

\* encoded := make([]byte, EncodedLen(len(Data))); StdEncoding.Encode(encoded, Data)
Encode ==
    /\ pc = "data"
    /\ encoded' = StdEncode(raw)
    /\ pc' = "encoded"
    /\ UNCHANGED <<msg, last, raw, broken, rnd, uuid, uuidStr, messageId>>

\* part.Write(base64LineBreaker(encoded)), and base64LineBreaker on a text of its own
LineBreak ==
    /\ pc \in {"encoded", "text"}
    /\ broken' = base64LineBreaker(encoded)
    /\ pc' = IF pc = "encoded" THEN "written" ELSE "broken"
    /\ UNCHANGED <<msg, last, raw, encoded, rnd, uuid, uuidStr, messageId>>

NextEncoder == Encode \/ LineBreak

SpecEncoder == InitEncoder /\ [][NextEncoder]_vars

(***************************************************************************)
(* The identifier generator: mail.go lines 55-89                           *)
(***************************************************************************)
Hostnames == {"mx1.example.org"}

InitGenerator ==
    /\ msg = NoMsg /\ last = NoLast /\ EncoderIdle
    /\ uuid = <<>> /\ uuidStr = <<>> /\ messageId = <<>>
    /\ pc = "drawn"
    /\ \E seed \in 0..MaxSeed, off \in Byte :
          rnd = [i \in 1..16 |-> (PatternBytes(16, seed)[i] + off) % 256]

generateUUID ==
    /\ pc = "drawn"
    /\ \E readOk \in BOOLEAN :
          LET r == generateUUIDResult(rnd, readOk)
          IN  /\ uuid' = r.uuid
              /\ uuidStr' = r.result
              /\ pc' = IF r.err = "nil" THEN "uuid" ELSE "uuidErr"
    /\ UNCHANGED <<msg, last, raw, encoded, broken, rnd, messageId>>

\* os.Hostname() may fail (hostname = "localhost")
generateMessageID ==
    /\ pc = "drawn"
    /\ \E hostOk \in BOOLEAN, readOk \in BOOLEAN, h \in Hostnames :
          LET hostname == IF hostOk THEN h ELSE "localhost"
              r == generateUUIDResult(rnd, readOk)
          IN  /\ uuid' = r.uuid
              /\ uuidStr' = r.result
              /\ messageId' = generateMessageIDResult(rnd, readOk, hostname)
              /\ pc' = "messageId"
    /\ UNCHANGED <<msg, last, raw, encoded, broken, rnd>>

NextGenerator == generateUUID \/ generateMessageID

SpecGenerator == InitGenerator /\ [][NextGenerator]_vars

(***************************************************************************)
(* Reading an encoded attachment back: the lines between the CRLF breaks,  *)
(* and a base64 decoder (standard alphabet, padding required)              *)
(***************************************************************************)
\* the positions of b at which a CRLF pair starts
BreaksAt(b) == {i \in 1..(Len(b) - 1) : b[i] = CR /\ b[i + 1] = LF}

\* the lines of b: the maximal runs between CRLF pairs
RECURSIVE Lines(_)
Lines(b) ==
    IF BreaksAt(b) = {} THEN <<b>>
    ELSE LET i == CHOOSE x \in BreaksAt(b) : \A y \in BreaksAt(b) : x <= y
         IN  <<SubSeq(b, 1, i - 1)>> \o Lines(SubSeq(b, i + 2, Len(b)))

RECURSIVE Concat(_)
Concat(ls) == IF Len(ls) = 0 THEN <<>> ELSE ls[1] \o Concat(Tail(ls))

StripCRLF(b) == Concat(Lines(b))

IsStdChar(c) == \E i \in 0..63 : encodeStd[i] = c
StdValue(c) == CHOOSE i \in 0..63 : encodeStd[i] = c
Corrupt == <<-1>>

\* StdEncoding.DecodeString: four characters give three bytes, the padding at the
\* end stands for the bytes that are not there; Corrupt on anything else
StdDecode(e) ==
    IF Len(e) = 0 THEN <<>>
    ELSE IF Len(e) % 4 # 0 THEN Corrupt
    ELSE
        LET pad == IF e[Len(e)] # StdPadding THEN 0
                   ELSE IF e[Len(e) - 1] # StdPadding THEN 1 ELSE 2
            n == 3 * (Len(e) \div 4) - pad
            val(i) == IF i > Len(e) - pad THEN 0 ELSE StdValue(e[i])
            quad(k) == val(4 * k - 3) * 262144 + val(4 * k - 2) * 4096
                       + val(4 * k - 1) * 64 + val(4 * k)
            byte(j) == LET q == quad((j - 1) \div 3 + 1)
                       IN  IF (j - 1) % 3 = 0 THEN q \div 65536
                           ELSE IF (j - 1) % 3 = 1 THEN (q \div 256) % 256
                           ELSE q % 256
        IN  IF \E i \in 1..(Len(e) - pad) : ~IsStdChar(e[i])
            THEN Corrupt
            ELSE [j \in 1..n |-> byte(j)]

LineBroken == pc \in {"written", "broken"}

(***************************************************************************)
(* C4 (as stated): base64LineBreaker puts a CRLF after every complete      *)
(* 76-character chunk of its input, so an input of n characters gets       *)
(* exactly n \div 76 CRLF pairs, also when n is a multiple of 76.          *)
(***************************************************************************)
C4_BreakAfterEveryChunk ==
    LineBroken =>
        /\ Cardinality(BreaksAt(broken)) = Len(encoded) \div LineLen
        /\ \A k \in 1..(Len(encoded) \div LineLen) :
              /\ Len(broken) >= (LineLen + 2) * k
              /\ broken[(LineLen + 2) * k - 1] = CR
              /\ broken[(LineLen + 2) * k] = LF

\* the number of complete 76-character chunks of n characters that are followed
\* by at least one more character
ChunksFollowed(n) == IF n = 0 THEN 0 ELSE (n - 1) \div LineLen

(***************************************************************************)
(* C4 (amended): base64LineBreaker puts a CRLF after every complete        *)
(* 76-character chunk that is followed by at least one more character: an  *)
(* input of n >= 1 characters gets exactly (n-1) \div 76 CRLF pairs, one   *)
(* right after each such chunk, the empty input gets none, and the output  *)
(* never ends with a CRLF.                                                 *)
(***************************************************************************)
C4_BreakBetweenChunks ==
    LineBroken =>
        /\ Cardinality(BreaksAt(broken)) = ChunksFollowed(Len(encoded))
        /\ Len(broken) = Len(encoded) + 2 * ChunksFollowed(Len(encoded))
        /\ \A k \in 1..ChunksFollowed(Len(encoded)) :
              /\ broken[(LineLen + 2) * k - 1] = CR
              /\ broken[(LineLen + 2) * k] = LF
              /\ SubSeq(broken, (LineLen + 2) * (k - 1) + 1, (LineLen + 2) * k - 2)
                   = SubSeq(encoded, LineLen * (k - 1) + 1, LineLen * k)
        /\ (Len(broken) >= 2 =>
               ~(broken[Len(broken) - 1] = CR /\ broken[Len(broken)] = LF))

\* an input of exactly two chunks has been broken: one CRLF, between the chunks
C4_Witness ==
    /\ LineBroken
    /\ Len(encoded) = 2 * LineLen
    /\ BreaksAt(broken) = {LineLen + 1}

(***************************************************************************)
(* C5: every line of base64LineBreaker's output (every maximal run between *)
(* CRLF breaks) is at most 76 characters long, for every input length.     *)
(***************************************************************************)
C5_NoLineOver76 ==
    LineBroken =>
        \A i \in 1..Len(Lines(broken)) : Len(Lines(broken)[i]) <= LineLen

\* a 77-character input has been broken into a line of 76 and a line of 1
C5_Witness ==
    /\ pc = "broken"
    /\ Len(encoded) = LineLen + 1
    /\ Len(Lines(broken)) = 2
    /\ Len(Lines(broken)[1]) = LineLen
    /\ Len(Lines(broken)[2]) = 1

(***************************************************************************)
(* C6: round trip of the attachment encoder. Base64-encoding a non-empty   *)
(* byte sequence, breaking the lines, removing the CRLF breaks and         *)
(* base64-decoding gives back the bytes; removing the CRLF pairs from      *)
(* base64LineBreaker's output gives back its input.                        *)
(***************************************************************************)
C6_RoundTrip ==
    /\ (LineBroken => StripCRLF(broken) = encoded)
    /\ (pc = "written" /\ raw # <<>> => StdDecode(StripCRLF(broken)) = raw)

\* an attachment whose encoding needed a line break has been written and read back
C6_Witness ==
    /\ pc = "written"
    /\ Len(raw) > 57
    /\ Len(raw) % 3 = 1
    /\ BreaksAt(broken) # {}
    /\ StdDecode(StripCRLF(broken)) = raw

IsHex(c) == \E i \in 1..16 : HexDigit[i] = c
HexValue(c) == (CHOOSE i \in 1..16 : HexDigit[i] = c) - 1
HyphenAt == {9, 14, 19, 24}

\* the hex digits of the identifier, hyphens removed
HexOnly(str) == SelectSeq(str, LAMBDA c : c # "-")

(***************************************************************************)
(* C7: the identifier generateUUID formats has the 8-4-4-4-12 hex layout,  *)
(* the high nibble of byte 6 is 4, the two high bits of byte 8 are 10, and *)
(* every other bit is the bit rand.Read drew.                              *)
(***************************************************************************)
C7_UUIDLayoutAndBits ==
    pc = "uuid" =>
        /\ Len(uuidStr) = 36
        /\ \A i \in 1..36 :
              IF i \in HyphenAt THEN uuidStr[i] = "-" ELSE IsHex(uuidStr[i])
        /\ \A i \in 1..16 :
              16 * HexValue(HexOnly(uuidStr)[2 * i - 1]) + HexValue(HexOnly(uuidStr)[2 * i])
                = uuid[i]
        /\ uuidStr[15] = "4"
        /\ uuid[7] \div 16 = 4
        /\ uuid[7] % 16 = rnd[7] % 16
        /\ uuidStr[20] \in {"8", "9", "a", "b"}
        /\ uuid[9] \div 64 = 2
        /\ uuid[9] % 64 = rnd[9] % 64
        /\ \A i \in (1..16) \ {7, 9} : uuid[i] = rnd[i]

\* an identifier was formatted from bytes whose version nibble and both variant
\* bits had to be changed
C7_Witness ==
    /\ pc = "uuid"
    /\ rnd[7] \div 16 = 15
    /\ rnd[9] \div 64 = 1
    /\ rnd[9] % 64 # 0
    /\ uuidStr[15] = "4"

(***************************************************************************)
(* The Message composer (part_002)                                         *)
(***************************************************************************)
MaxAttachments == 2    \* attachments a Message is given at most

NoHeader == <<>>

\* New(opt), mail.go lines 44-48
New(opt) ==
    [ Options |-> opt, from |-> "", to |-> <<>>, subject |-> "",
      cc |-> <<>>, bcc |-> <<>>, header |-> NoHeader,
      plainText |-> <<>>, html |-> <<>>, attachment |-> <<>> ]

\* what a call did: the error it returned, the steps it went through, for Send the
\* Content-Type it chose, the body it built and the SendMail call it made, for
\* SetAttachment the path it was given and what the operating system answered
Outcome(op, err, steps, ct, body, smtp, io) ==
    [ op |-> op, err |-> err, steps |-> steps, headContentType |-> ct,
      body |-> body, smtp |-> smtp, io |-> io, file |-> "" ]

Returned(op, err) == Outcome(op, err, {}, <<>>, <<>>, <<>>, "none")

(***************************************************************************)
(* The file system and mime.TypeByExtension, as SetAttachment sees them    *)
(***************************************************************************)
\* kind: "missing" (os.Open fails), "dir" (opens, cannot be read), "file"
Files ==
    [ p \in {"missing.txt", "docs", "docs/report.pdf"} |->
        IF p = "missing.txt"
        THEN [kind |-> "missing", name |-> "missing.txt", ext |-> ".txt", data |-> <<>>]
        ELSE IF p = "docs"
        THEN [kind |-> "dir", name |-> "docs", ext |-> "", data |-> <<0>>]
        ELSE [kind |-> "file", name |-> "report.pdf", ext |-> ".pdf",
              data |-> <<37, 80>>] ]

TypeByExtension(ext) ==
    IF ext = ".pdf" THEN "application/pdf"
    ELSE IF ext = ".txt" THEN "text/plain; charset=utf-8"
    ELSE ""

\* what the operating system may answer for a path
IoOutcomes(p) ==
    IF Files[p].kind = "missing" THEN {"openFail"}
    ELSE IF Files[p].kind = "dir" THEN {"readFail"}
    ELSE {"openFail", "statFail", "readFail", "ok"}

Zeros(n) == [i \in 1..n |-> 0]

\* fileBuffer := make([]byte, fileSize); file.Read(fileBuffer), the result of Read
\* is dropped: after a failed Read the buffer holds the zeros make gave it
ReadBuffer(p, io) == IF io = "ok" THEN Files[p].data ELSE Zeros(Len(Files[p].data))

(***************************************************************************)
(* Setters, part_002 lines 45-71                                           *)
(***************************************************************************)
\* a setter returns nothing
Set == Returned("Set", "nil")

Quiet == UNCHANGED <<raw, encoded, broken, rnd, uuid, uuidStr, messageId, pc>>

SetFrom(from) ==
    /\ msg' = [msg EXCEPT !.from = from]
    /\ last' = Set
    /\ Quiet

SetTo(to) ==
    /\ msg' = [msg EXCEPT !.to = to]
    /\ last' = Set
    /\ Quiet

SetSubject(subject) ==
    /\ msg' = [msg EXCEPT !.subject = subject]
    /\ last' = Set
    /\ Quiet

SetCc(cc) ==
    /\ msg' = [msg EXCEPT !.cc = cc]
    /\ last' = Set
    /\ Quiet

SetBcc(bcc) ==
    /\ msg' = [msg EXCEPT !.bcc = bcc]
    /\ last' = Set
    /\ Quiet

SetBodyPlainText(content) ==
    /\ msg' = [msg EXCEPT !.plainText = content]
    /\ last' = Set
    /\ Quiet

SetBodyHTML(content) ==
    /\ msg' = [msg EXCEPT !.html = content]
    /\ last' = Set
    /\ Quiet

(***************************************************************************)
(* SetAttachment, part_002 lines 75-108                                    *)
(***************************************************************************)
\* the Message and the returned error after SetAttachment(filename), the operating
\* system answering io
SetAttachmentResult(m, filename, io) ==
    IF filename = "" THEN [msg |-> m, err |-> "ErrEmptyAttachment"]
    ELSE IF io = "openFail" THEN [msg |-> m, err |-> "ErrFileNotFound"]
    ELSE IF io = "statFail" THEN [msg |-> m, err |-> "stat error"]
    ELSE LET a == [ Name |-> Files[filename].name,
                    Data |-> ReadBuffer(filename, io),
                    ContentType |-> TypeByExtension(Files[filename].ext) ]
         IN  [msg |-> [m EXCEPT !.attachment = Append(@, a)], err |-> "nil"]

SetAttachment(filename) ==
    /\ \E io \in (IF filename = "" THEN {"none"} ELSE IoOutcomes(filename)) :
          LET r == SetAttachmentResult(msg, filename, io)
          IN  /\ Len(r.msg.attachment) <= MaxAttachments
              /\ msg' = r.msg
              /\ last' = [Returned("SetAttachment", r.err)
                             EXCEPT !.io = io, !.file = filename]
    /\ Quiet

(***************************************************************************)
(* mime/multipart.Writer over the body buffer, as Send drives it.          *)
(* The buffer is a sequence of tokens: a boundary delimiter line, a part   *)
(* header line, the blank line ending a part header, a payload, the CRLF   *)
(* before a later delimiter, and the closing delimiter.                    *)
(***************************************************************************)
Token(t, k, v, d) == [t |-> t, k |-> k, v |-> v, d |-> d]

Delimiter(b) == Token("delimiter", b, <<>>, <<>>)
PartHeader(k, v) == Token("header", k, v, <<>>)
BlankLine == Token("blank", "", <<>>, <<>>)
Payload(d) == Token("payload", "", <<>>, d)
LineEnd == Token("crlf", "", <<>>, <<>>)
CloseDelimiter(b) == Token("close", b, <<>>, <<>>)

\* multipart.NewWriter(&body), part_002 line 136; the boundary is random
NewWriter(b) == [boundary |-> b, body |-> <<>>, lastpart |-> FALSE]

\* writer.CreatePart(header): the delimiter line (after a CRLF when a part was
\* written before), the header lines in key order, a blank line
CreatePart(w, header) ==
    [w EXCEPT !.body = @ \o (IF w.lastpart THEN <<LineEnd>> ELSE <<>>)
                         \o <<Delimiter(w.boundary)>> \o header \o <<BlankLine>>,
              !.lastpart = TRUE]

\* part.Write(p)
PartWrite(w, p) == [w EXCEPT !.body = Append(@, Payload(p))]

\* writer.Close(), part_002 line 199
WriterClose(w) == [w EXCEPT !.body = @ \o <<LineEnd, CloseDelimiter(w.boundary)>>]

TextPlain == <<"text/plain; charset=UTF-8">>
TextHTML == <<"text/html; charset=UTF-8">>
MultipartAlternative(b) == <<"multipart/alternative; boundary=\"", b, "\"">>
MultipartMixed(b) == <<"multipart/mixed; boundary=\"", b, "\"">>

(***************************************************************************)
(* Send, part_002 lines 110-233                                            *)
(***************************************************************************)
\* lines 111-121 (the variant checks the subject before from and to)
ValidateSubjectFirst(m) ==
    IF m.subject = "" THEN "ErrEmptySubject"
    ELSE IF m.from = "" THEN "ErrEmptyFrom"
    ELSE IF Len(m.to) = 0 THEN "ErrEmptyTo"
    ELSE "nil"

Validate(m) ==
    IF m.from = "" THEN "ErrEmptyFrom"
    ELSE IF Len(m.to) = 0 THEN "ErrEmptyTo"
    ELSE IF m.subject = "" THEN "ErrEmptySubject"
    ELSE "nil"

\* net/mail.ParseAddress accepts these
WellFormed == {"a@x.com", "b@y.com", "c@z.com"}

\* lines 123-133
ParseAddresses(m) ==
    IF m.from \notin WellFormed THEN "mail: from"
    ELSE IF \E i \in 1..Len(m.to) : m.to[i] \notin WellFormed THEN "mail: to"
    ELSE "nil"

\* lines 138-154: st is the writer and headContentType
WritePlainText(m, st) ==
    IF Len(m.plainText) > 0
    THEN [ w |-> PartWrite(CreatePart(st.w, <<PartHeader("Content-Type", TextPlain)>>),
                           m.plainText),
           headContentType |-> TextPlain ]
    ELSE st

\* lines 156-174
WriteHTML(m, st) ==
    IF Len(m.html) > 0
    THEN [ w |-> PartWrite(CreatePart(st.w, <<PartHeader("Content-Type", TextHTML)>>),
                           m.html),
           headContentType |-> IF Len(m.plainText) # 0
                               THEN MultipartAlternative(st.w.boundary)
                               ELSE TextHTML ]
    ELSE st

\* lines 177-194: one part per attachment, in the order of the slice
RECURSIVE WriteParts(_, _)
WriteParts(w, atts) ==
    IF Len(atts) = 0 THEN w
    ELSE LET attachment == atts[1]
             part == CreatePart(w,
                 << PartHeader("Content-Disposition",
                        <<"attachment; filename=\"", attachment.Name, "\"">>),
                    PartHeader("Content-Transfer-Encoding", <<"base64">>),
                    PartHeader("Content-Type", <<attachment.ContentType>>) >>)
         IN  WriteParts(PartWrite(part, base64LineBreaker(StdEncode(attachment.Data))),
                        Tail(atts))

\* lines 176-197 (the variant keeps a Content-Type chosen for the text parts)
WriteAttachmentsKeepType(m, st) ==
    IF Len(m.attachment) > 0
    THEN [ w |-> WriteParts(st.w, m.attachment),
           headContentType |-> IF st.headContentType = <<>>
                               THEN MultipartMixed(st.w.boundary)
                               ELSE st.headContentType ]
    ELSE st

WriteAttachments(m, st) ==
    IF Len(m.attachment) > 0
    THEN [ w |-> WriteParts(st.w, m.attachment),
           headContentType |-> MultipartMixed(st.w.boundary) ]
    ELSE st

\* lines 135-202: the body buffer and headContentType (the variant writes the
\* HTML part before the plain text part)
BuildBodyHTMLFirst(m, b) ==
    LET st == WriteAttachments(m,
                  WritePlainText(m,
                      WriteHTML(m, [w |-> NewWriter(b), headContentType |-> <<>>])))
    IN  [body |-> WriterClose(st.w).body, headContentType |-> st.headContentType]

BuildBody(m, b) ==
    LET st == WriteAttachments(m,
                  WriteHTML(m,
                      WritePlainText(m, [w |-> NewWriter(b), headContentType |-> <<>>])))
    IN  [body |-> WriterClose(st.w).body, headContentType |-> st.headContentType]

\* strings.Join(a, ",")
RECURSIVE Join(_)
Join(a) ==
    IF Len(a) = 0 THEN <<>>
    ELSE IF Len(a) = 1 THEN <<a[1]>>
    ELSE <<a[1], ",">> \o Join(Tail(a))

HeaderLine(k, v) == [k |-> k, v |-> v]

\* lines 204-218; the parsed from prints as <address>, the date is the time of the call
BuildHeader(m, id, headContentType) ==
    << HeaderLine("From", <<"<", m.from, ">">>),
       HeaderLine("To", Join(m.to)),
       HeaderLine("Subject", <<m.subject>>),
       HeaderLine("Message-ID", id),
       HeaderLine("Date", <<"time.Now">>),
       HeaderLine("MIME-Version", <<"1.0">>),
       HeaderLine("Content-Type", headContentType) >>
    \o (IF Len(m.cc) > 0 THEN <<HeaderLine("Cc", Join(m.cc))>> ELSE <<>>)
    \o (IF Len(m.bcc) > 0 THEN <<HeaderLine("Bcc", Join(m.bcc))>> ELSE <<>>)

\* Options.plainAuth, mail.go lines 25-41
plainAuth(o) ==
    IF o.Username = "" THEN "ErrEmptyUsername"
    ELSE IF o.Password = "" THEN "ErrEmptyPassword"
    ELSE IF o.Host = "" THEN "ErrEmptyHost"
    ELSE "nil"

\* the Message and the outcome after Send; b: the writer's boundary, id: the
\* Message-ID generated, smtpErr: what smtp.SendMail returns if it is called
SendResult(m, b, id, smtpErr) ==
    IF Validate(m) # "nil"
    THEN [msg |-> m, last |-> Returned("Send", Validate(m))]
    ELSE IF ParseAddresses(m) # "nil"
    THEN [msg |-> m,
          last |-> Outcome("Send", ParseAddresses(m), {"ParseAddress"},
                           <<>>, <<>>, <<>>, "none")]
    ELSE
        LET built == BuildBody(m, b)
            sent == [m EXCEPT !.header = BuildHeader(m, id, built.headContentType)]
            encoding == IF Len(m.attachment) > 0 THEN {"Encode"} ELSE {}
            composed == {"ParseAddress", "CreateBody", "header", "plainAuth"}
                        \cup encoding
        IN  IF plainAuth(m.Options) # "nil"
            THEN [msg |-> sent,
                  last |-> Outcome("Send", plainAuth(m.Options), composed,
                                   built.headContentType, built.body, <<>>, "none")]
            ELSE [msg |-> sent,
                  last |-> Outcome("Send", smtpErr, composed \cup {"SendMail"},
                                   built.headContentType, built.body,
                                   << [ addr |-> <<m.Options.Host, ":", m.Options.Port>>,
                                        from |-> m.from, to |-> m.to ] >>,
                                   "none")]

IdDraw == PatternBytes(16, 2)

Send(b, smtpErr) ==
    /\ LET r == SendResult(msg, b,
                     generateMessageIDResult(IdDraw, TRUE, "mx1.example.org"), smtpErr)
       IN  msg' = r.msg /\ last' = r.last
    /\ Quiet

(***************************************************************************)
(* The composer driven with addressing and configuration inputs            *)
(***************************************************************************)
Configured == [Host |-> "smtp.x.com", Port |-> "587", Username |-> "user", Password |-> "secret"]

\* every field present, and each one missing in turn
OptionChoices ==
    {Configured} \cup {[Configured EXCEPT ![f] = ""] : f \in DOMAIN Configured}

Init ==
    /\ \E opt \in OptionChoices : msg = New(opt)
    /\ last = Returned("New", "nil")
    /\ EncoderIdle /\ GeneratorIdle /\ pc = "message"

Next ==
    \/ \E from \in {"", "a@x.com", "not an address"} : SetFrom(from)
    \/ \E to \in {<<>>, <<"b@y.com">>, <<"b@y.com", "nobody">>} : SetTo(to)
    \/ \E subject \in {"", "Hi"} : SetSubject(subject)
    \/ \E cc \in {<<>>} : SetCc(cc)
    \/ \E bcc \in {<<>>, <<"c@z.com">>} : SetBcc(bcc)
    \/ \E content \in {<<>>, <<104, 105>>} : SetBodyPlainText(content)
    \/ \E content \in {<<>>} : SetBodyHTML(content)
    \/ \E filename \in {"", "docs"} : SetAttachment(filename)
    \/ \E smtpErr \in {"nil", "smtp error"} : Send("boundary-1", smtpErr)

Spec == Init /\ [][Next]_vars

(***************************************************************************)
(* The composer driven with body inputs, on an addressed Message           *)
(***************************************************************************)
InitCompose ==
    /\ msg = [New(Configured) EXCEPT !.from = "a@x.com", !.to = <<"b@y.com">>,
                                      !.subject = "Hi"]
    /\ last = Set
    /\ EncoderIdle /\ GeneratorIdle /\ pc = "message"

NextCompose ==
    \/ \E from \in {"a@x.com"} : SetFrom(from)
    \/ \E to \in {<<"b@y.com">>} : SetTo(to)
    \/ \E subject \in {"Hi"} : SetSubject(subject)
    \/ \E cc \in {<<>>, <<"c@z.com">>} : SetCc(cc)
    \/ \E bcc \in {<<>>} : SetBcc(bcc)
    \/ \E content \in {<<>>, <<104, 105>>} : SetBodyPlainText(content)
    \/ \E content \in {<<>>, <<60, 98, 62>>} : SetBodyHTML(content)
    \/ \E filename \in {""} \cup DOMAIN Files : SetAttachment(filename)
    \/ \E b \in {"boundary-1", "boundary-2"} : Send(b, "nil")

SpecCompose == InitCompose /\ [][NextCompose]_vars

(***************************************************************************)
(* Reading a composed message                                              *)
(***************************************************************************)
Sent == last.op = "Send"
Composed == last.op = "Send" /\ "CreateBody" \in last.steps

HasPlainText == Len(msg.plainText) > 0
HasHTML == Len(msg.html) > 0
HasAttachment == Len(msg.attachment) > 0

TokensOf(body, type) == SelectSeq(body, LAMBDA tok : tok.t = type)
\* the values of the part header lines named k, in body order
PartHeadersOf(body, k) ==
    LET hs == SelectSeq(body, LAMBDA tok : tok.t = "header" /\ tok.k = k)
    IN  [i \in 1..Len(hs) |-> hs[i].v]
PayloadsOf(body) ==
    LET ps == TokensOf(body, "payload") IN [i \in 1..Len(ps) |-> ps[i].d]
\* the boundary the writer closed the body with
WriterBoundary(body) == body[Len(body)].k
\* the token types of the body, part header lines left out
Shape(body) ==
    LET ts == SelectSeq(body, LAMBDA tok : tok.t # "header")
    IN  [i \in 1..Len(ts) |-> ts[i].t]

NothingDone ==
    /\ last.steps = {}
    /\ last.body = <<>>
    /\ last.smtp = <<>>

(***************************************************************************)
(* C1: Send on a Message with an empty from fails with ErrEmptyFrom,       *)
(* otherwise with an empty to list with ErrEmptyTo, otherwise with an      *)
(* empty subject with ErrEmptySubject, whatever the other fields are, and  *)
(* before any address parsing, body encoding, plainAuth or SendMail call.  *)
(***************************************************************************)
C1_ValidationFirst ==
    Sent =>
        /\ (msg.from = "" => last.err = "ErrEmptyFrom" /\ NothingDone)
        /\ (msg.from # "" /\ Len(msg.to) = 0 =>
               last.err = "ErrEmptyTo" /\ NothingDone)
        /\ (msg.from # "" /\ Len(msg.to) > 0 /\ msg.subject = "" =>
               last.err = "ErrEmptySubject" /\ NothingDone)

\* Send has refused an empty to list on a Message with a malformed from, an
\* attachment and a missing host
C1_Witness ==
    /\ Sent
    /\ msg.from = "not an address"
    /\ Len(msg.to) = 0
    /\ HasAttachment
    /\ msg.Options.Host = ""
    /\ last.err = "ErrEmptyTo"

(***************************************************************************)
(* C3 (as stated): host, port, username and password are all required: a   *)
(* Send of an otherwise valid Message with any one of them empty fails     *)
(* with a configuration error at plainAuth and SendMail is never called.   *)
(***************************************************************************)
C3_AllOptionsRequired ==
    /\ (last.op = "New" => last.err = "nil")
    /\ (Sent /\ Validate(msg) = "nil" /\ ParseAddresses(msg) = "nil"
           /\ (\E f \in DOMAIN msg.Options : msg.Options[f] = "") =>
             /\ last.err \in {"ErrEmptyHost", "ErrEmptyPort",
                               "ErrEmptyUsername", "ErrEmptyPassword"}
             /\ "SendMail" \notin last.steps
             /\ last.smtp = <<>>)

(***************************************************************************)
(* C2: the top-level Content-Type Send composes is text/plain when only    *)
(* plain text is set, text/html when only HTML is set, multipart/          *)
(* alternative with the writer's boundary when both are set and there is   *)
(* no attachment, and multipart/mixed with the writer's boundary whenever  *)
(* there is an attachment.                                                 *)
(***************************************************************************)
C2_ContentTypeSelection ==
    Composed =>
        LET b == WriterBoundary(last.body)
            ct == last.headContentType
        IN  /\ (HasAttachment => ct = <<"multipart/mixed; boundary=\"", b, "\"">>)
            /\ (~HasAttachment /\ HasPlainText /\ HasHTML =>
                   ct = <<"multipart/alternative; boundary=\"", b, "\"">>)
            /\ (~HasAttachment /\ HasPlainText /\ ~HasHTML =>
                   ct = <<"text/plain; charset=UTF-8">>)
            /\ (~HasAttachment /\ ~HasPlainText /\ HasHTML =>
                   ct = <<"text/html; charset=UTF-8">>)
            /\ msg.header[7] = [k |-> "Content-Type", v |-> ct]

\* a Message with plain text, HTML and two attachments was composed as multipart/mixed
C2_Witness ==
    /\ Composed
    /\ HasPlainText /\ HasHTML
    /\ Len(msg.attachment) = 2
    /\ last.headContentType[1] = "multipart/mixed; boundary=\""
    /\ last.headContentType[2] = "boundary-2"

(***************************************************************************)
(* C9 (as stated): in a composed message with some content, the           *)
(* Content-Type header carries a boundary parameter exactly when the body  *)
(* holds boundary delimiter lines; with exactly one of plain text or HTML  *)
(* and no attachment the body is that payload alone, with no delimiter and *)
(* no part header.                                                         *)
(***************************************************************************)
C9_BoundaryIffMultipart ==
    Composed /\ (HasPlainText \/ HasHTML \/ HasAttachment) =>
        /\ (Len(last.headContentType) = 3 /\ last.headContentType[3] = "\"")
             <=> (\E i \in 1..Len(last.body) : last.body[i].t \in {"delimiter", "close"})
        /\ (~HasAttachment /\ HasPlainText /\ ~HasHTML =>
               last.body = <<Payload(msg.plainText)>>)
        /\ (~HasAttachment /\ ~HasPlainText /\ HasHTML =>
               last.body = <<Payload(msg.html)>>)

\* the parts expected: Content-Type, and the payload as the receiver reads it
ExpectedParts ==
    (IF HasPlainText
     THEN <<[type |-> <<"text/plain; charset=UTF-8">>, data |-> msg.plainText]>>
     ELSE <<>>)
    \o (IF HasHTML
        THEN <<[type |-> <<"text/html; charset=UTF-8">>, data |-> msg.html]>>
        ELSE <<>>)
    \o [i \in 1..Len(msg.attachment) |->
          [type |-> <<msg.attachment[i].ContentType>>, data |-> msg.attachment[i].Data]]

TextParts == (IF HasPlainText THEN 1 ELSE 0) + (IF HasHTML THEN 1 ELSE 0)

\* the payload of part i as the receiver reads it: attachment parts are base64
ReadPayload(body, i) ==
    IF i <= TextParts THEN PayloadsOf(body)[i]
    ELSE StdDecode(StripCRLF(PayloadsOf(body)[i]))

C10_Parts ==
    Composed =>
        LET n == TextParts + Len(msg.attachment)
        IN  /\ Len(TokensOf(last.body, "delimiter")) = n
            /\ Len(PayloadsOf(last.body)) = n
            /\ Len(ExpectedParts) = n
            /\ PartHeadersOf(last.body, "Content-Type")
                 = [i \in 1..n |-> ExpectedParts[i].type]
            /\ \A i \in 1..n : ReadPayload(last.body, i) = ExpectedParts[i].data
            /\ PartHeadersOf(last.body, "Content-Disposition")
                 = [i \in 1..Len(msg.attachment) |->
                      <<"attachment; filename=\"", msg.attachment[i].Name, "\"">>]
            /\ Shape(last.body)
                 = [i \in 1..(4 * n + (IF n = 0 THEN 2 ELSE 1)) |->
                      IF i = 4 * n + (IF n = 0 THEN 2 ELSE 1) THEN "close"
                      ELSE IF n = 0 THEN "crlf"
                      ELSE IF i % 4 = 1 THEN "delimiter"
                      ELSE IF i % 4 = 2 THEN "blank"
                      ELSE IF i % 4 = 3 THEN "payload"
                      ELSE "crlf"]

C10_Step ==
    /\ (last'.op = "Send" =>
           /\ msg'.plainText = msg.plainText
           /\ msg'.html = msg.html
           /\ msg'.attachment = msg.attachment)
    /\ (last'.op = "Set" =>
           /\ msg'.attachment = msg.attachment
           /\ msg'.plainText \in {msg.plainText, <<>>, <<104, 105>>}
           /\ msg'.html \in {msg.html, <<>>, <<60, 98, 62>>})
    /\ (last'.op = "SetAttachment" =>
           /\ msg'.plainText = msg.plainText
           /\ msg'.html = msg.html
           /\ \/ msg'.attachment = msg.attachment
              \/ /\ Len(msg'.attachment) = Len(msg.attachment) + 1
                 /\ SubSeq(msg'.attachment, 1, Len(msg.attachment)) = msg.attachment)

(***************************************************************************)
(* C10: the body Send builds holds exactly one part per content variant    *)
(* present, in this order: the plain text part if plain text is non-empty, *)
(* the HTML part if HTML is non-empty, then one part per attachment in the *)
(* order SetAttachment appended them; Send leaves plain text, HTML and the *)
(* attachment list as they were.                                           *)
(***************************************************************************)
C10_PartsInOrder == []C10_Parts /\ [][C10_Step]_vars

\* plain text, HTML and two different attachments were composed into four parts
C10_Witness ==
    /\ Composed
    /\ HasPlainText /\ HasHTML
    /\ Len(msg.attachment) = 2
    /\ msg.attachment[1].Name = "report.pdf"
    /\ msg.attachment[2].Name = "docs"
    /\ Len(TokensOf(last.body, "delimiter")) = 4

C8_Step ==
    last'.op = "SetAttachment" =>
        /\ (last'.file = "" => last'.err = "ErrEmptyAttachment")
        /\ (last'.io = "openFail" => last'.err = "ErrFileNotFound")
        /\ (last'.io \in {"statFail", "readFail"} => last'.err # "nil")
        /\ (last'.err # "nil" => msg' = msg)
        /\ (last'.err = "nil" =>
               msg' = [msg EXCEPT !.attachment =
                          Append(@, [ Name |-> Files[last'.file].name,
                                      Data |-> Files[last'.file].data,
                                      ContentType |->
                                          TypeByExtension(Files[last'.file].ext) ])])

(***************************************************************************)
(* C8 (as stated): SetAttachment fails with ErrEmptyAttachment on an empty *)
(* path and with ErrFileNotFound or a read error when the file cannot be   *)
(* opened or read; a failure leaves the Message as it was; a success       *)
(* appends exactly one attachment (base name, full file bytes, content     *)
(* type of the extension) and changes nothing else.                        *)
(***************************************************************************)
C8_SetAttachmentFailsOrAppends == [][C8_Step]_vars

====
